---- MODULE Spec2Model ----
(***************************************************************************)
(* Procedural world generation and chunk cache of the jet map game         *)
(* (utils/MapGenerator: seededRandom, noise2D, generateIslandsForChunk,    *)
(* buildIsland, generateDeepOceanPatches, generateCloudsForChunk,          *)
(* buildCloudFormation, generateChunk and class ChunkCache), the game      *)
(* state with its loop, input handlers and initialization (GameContext,    *)
(* useInputController, Main), and TerrainLayer's use of the cache.         *)
(*                                                                         *)
(* Numbers.  A draw of seededRandom is a value v in 0..RandDen-1 that      *)
(* stands for the real v/RandDen in [0,1).  World positions are kept in    *)
(* sub-pixels (Sub per pixel), radii and tile offsets in pixels; lengths   *)
(* inside an island are kept in hundredths of a tile, angles in whole      *)
(* degrees, sines and cosines in thousandths.  Distances are compared      *)
(* through their squares.                                                  *)
(***************************************************************************)
EXTENDS Integers, Sequences, FiniteSets, TLC

VARIABLES
    seed,      \* ChunkCache.seed, the world seed (state.mapSeed)
    heap,      \* the Chunk objects built so far, by reference
    cache,     \* ChunkCache.cache: Map from key string to Chunk reference
    last,      \* the last call made and what it returned
    handed,    \* history: per key, the reference getChunk first returned since the last cleanup
    evicted,   \* history: per key, the reference cleanup deleted most recently
    state,     \* GameContext: the committed state of useState
    rendered,  \* GameContext: the state of the latest render, which the callbacks read
    timers,    \* the resetPlayer timeouts pending
    runs,      \* the runs of Main's initialize, each at its await
    current,   \* TerrainLayer: <<currentChunkX, currentChunkY>> of the latest render
    visibleChunks, \* TerrainLayer: the chunks of the latest getChunksInRadius
    interval   \* TerrainLayer: <<>> before the first effect, else <<the time
               \* steps since the cleanup interval was created or last fired>>

cacheVars == <<seed, heap, cache, last, handed, evicted>>
gameVars == <<state, rendered, timers, runs>>
terrainVars == <<current, visibleChunks, interval>>
vars == <<cacheVars, gameVars, terrainVars>>

----------------------------------------------------------------------------
(* Bounds of the model *)

MaxSeed == 0        \* seeds 0..MaxSeed for the cache machine
MaxGenSeed == 9     \* seeds 0..MaxGenSeed for direct generation
MaxCoordX == 1      \* call arguments chunkX range over 0..MaxCoordX
MaxCoordY == 0      \* call arguments chunkY range over 0..MaxCoordY
MaxRadius == 1      \* getChunksInRadius radius ranges over 0..MaxRadius
MaxKeep == 1        \* cleanup keepRadius ranges over 0..MaxKeep
MaxGen == 2         \* a key is built at most MaxGen times in a run
MaxChunks == 12     \* at most MaxChunks Chunk objects are built in a run
MaxBuilds == 2      \* direct generateChunk calls in a run
MaxGenCoord == 0    \* direct generation ranges over -1..MaxGenCoord
MaxIslandSeed == 0  \* seeds 0..MaxIslandSeed for island building
MaxCloudSeed == 11  \* seeds 0..MaxCloudSeed for cloud placement
MaxCloudCoord == 2  \* cloud placement ranges over -MaxCloudCoord..MaxCloudCoord

\* the game machine
MaxSpeed == 3       \* PLAYER_SPEED, in length units per time step
MaxBound == 2       \* mapBounds.x ranges over MaxBound-1..MaxBound, mapBounds.y is MaxBound-1
MaxDelta == 1       \* the elapsed time of a tick ranges over 1..MaxDelta thirtieths of a second
MaxRotation == 4    \* a tick is taken while playerRotation stays within -MaxRotation..MaxRotation
MaxPinch == 160     \* the largest change of touch distance in a pinch, in pixels
MaxTimers == 2      \* reset timeouts pending at a time
MaxRuns == 2        \* runs of initialize in a behaviour

\* the terrain machine: the current chunk ranges over 0..MaxTerrainX, 0..MaxTerrainY
MaxTerrainX == 3
MaxTerrainY == 0
\* the time steps that make up the 5000 ms of the cleanup interval
IntervalSteps == 2

----------------------------------------------------------------------------
(* Configuration: utils/Scale and engine/config *)

TILE_SIZE == 10
CHUNK_SIZE == 64
CLOUD_SIZE == 1
Sub == 10           \* sub-pixels per pixel of the fixed-point positions
RandDen == 64       \* denominator of a draw

Abs(n) == IF n < 0 THEN 0 - n ELSE n
Sq(n) == n * n

----------------------------------------------------------------------------
(* Deterministic random source and trigonometry *)

\* frac(sin(arg) * 43758.5453): the sine hash is not computable over the
\* integers; it is replaced by an integer mixing of the same argument
\* (arg is held in 1/10000), so equal arguments give equal draws and
\* nothing but the argument is read.
SineFrac(arg) ==
    LET mix(h) == ((h * 31 + (arg % 977) * 7 + (h \div 64)) % 4093) % RandDen
    IN  mix(Sq(arg % 32749) % 32749)

\* a random source with hidden mutable state: the n-th chunk built shifts it
seededRandomStateful(x, y, sd) ==
    SineFrac(x * 129898 + y * 782330 + sd * 10000 + Cardinality(DOMAIN heap) * 7919)

seededRandom(x, y, sd) == SineFrac(x * 129898 + y * 782330 + sd * 10000)

\* seededRandom at the fractional coordinates x/den, y/den
seededRandomFrac(x, y, den, sd) ==
    SineFrac(((x * 129898 + y * 782330) \div den) + sd * 10000)

\* Math.floor(r * k) for a draw r and a natural k
FloorMul(v, k) == (v * k) \div RandDen

\* r < num/den for a draw r
Below(v, num, den) == v * den < num * RandDen

\* Math.sin of deg degrees, 0 <= deg <= 180, in thousandths (Bhaskara's
\* rational approximation; exact at 0, 30, 90, 150 and 180 degrees)
SinHalf(deg) == (4000 * deg * (180 - deg)) \div (40500 - deg * (180 - deg))

\* Math.sin and Math.cos of deg >= 0 degrees, in thousandths
Sin(deg) ==
    IF deg % 360 <= 180 THEN SinHalf(deg % 360) ELSE 0 - SinHalf((deg % 360) - 180)
Cos(deg) == Sin(deg + 90)

\* Math.round(num / den) for den > 0: halves round up
Round(num, den) == (2 * num + den) \div (2 * den)

----------------------------------------------------------------------------
(* Noise: noise2D with scale = 1/scaleDen.  The result is the numerator of  *)
(* value / 1.75 over 7 * RandDen (three octaves of amplitude 1, 1/2, 1/4    *)
(* at frequency 1, 2, 4).                                                   *)

noise2D(x, y, sd, scaleDen) ==
    4 * seededRandomFrac(x, y, scaleDen, sd)
        + 2 * seededRandomFrac(2 * x, 2 * y, scaleDen, sd + 1000)
        + seededRandomFrac(4 * x, 4 * y, scaleDen, sd + 2000)

----------------------------------------------------------------------------
(* Island builder: buildIsland *)

\* stretchX and stretchY in tenths, rotation in degrees
shapeModifiers(shape, sd) ==
    IF shape = "oval"
    THEN IF seededRandom(0, 0, sd) * 2 > RandDen
         THEN [stretchX |-> 15, stretchY |-> 7, rotation |-> 0]
         ELSE [stretchX |-> 7, stretchY |-> 15, rotation |-> 0]
    ELSE IF shape = "diagonal"
    THEN [stretchX |-> 14, stretchY |-> 8,
          rotation |-> (90 * seededRandom(1, 0, sd)) \div RandDen]
    ELSE [stretchX |-> 10, stretchY |-> 10, rotation |-> 0]

\* inBand with "<=" for "<"
inBandInclusive(d2, bump, radiusTiles, tenths) ==
    tenths * radiusTiles * 10 - bump > 0 /\ d2 <= Sq(tenths * radiusTiles * 10 - bump)

\* normalizedDist < tenths/10, for a squared distance d2 in hundredths of a
\* tile and the irregularity bump (hundredths) that the code adds to distance
inBand(d2, bump, radiusTiles, tenths) ==
    tenths * radiusTiles * 10 - bump > 0 /\ d2 < Sq(tenths * radiusTiles * 10 - bump)

\* the layered transitions; "none" where the code leaves texture null
tileTexture(d2, bump, radiusTiles, tileRandom) ==
    IF inBand(d2, bump, radiusTiles, 2) THEN "mountain"
    ELSE IF inBand(d2, bump, radiusTiles, 4)
    THEN IF Below(tileRandom, 8, 10) THEN "rocks" ELSE "tree"
    ELSE IF inBand(d2, bump, radiusTiles, 6)
    THEN IF Below(tileRandom, 3, 10) THEN "soil"
         ELSE IF Below(tileRandom, 5, 10) THEN "tree"
         ELSE IF Below(tileRandom, 75, 100) THEN "grass"
         ELSE "sand"
    ELSE IF inBand(d2, bump, radiusTiles, 8)
    THEN IF Below(tileRandom, 6, 10) THEN "sand" ELSE "grass"
    ELSE IF inBand(d2, bump, radiusTiles, 10)
    THEN IF Below(tileRandom, 7, 10) THEN "sand" ELSE "shoal"
    ELSE IF inBand(d2, bump, radiusTiles, 12) THEN "shoal"
    ELSE IF inBand(d2, bump, radiusTiles, 15) THEN "oceanShallow"
    ELSE IF inBand(d2, bump, radiusTiles, 18) THEN "oceanSemiDeep"
    ELSE "none"

\* one pass of the scan: the texture of the cell (dx, dy)
scanCell(dx, dy, radiusTiles, shape, mod, sd) ==
    LET \* rx, ry in thousandths of a tile, before the stretch
        rx == IF mod.rotation # 0
              THEN dx * Cos(mod.rotation) - dy * Sin(mod.rotation) ELSE dx * 1000
        ry == IF mod.rotation # 0
              THEN dx * Sin(mod.rotation) + dy * Cos(mod.rotation) ELSE dy * 1000
        \* (noiseValue - 0.5) * 3, in hundredths of a tile
        bump == IF shape = "irregular"
                THEN ((300 * noise2D(dx, dy, sd, 5)) \div (7 * RandDen)) - 150 ELSE 0
    IN  tileTexture(Sq(rx \div mod.stretchX) + Sq(ry \div mod.stretchY), bump,
                    radiusTiles, seededRandom(dx, dy, sd))

\* a scan that snaps offsetX to a grid of two tiles
scanTilesSnapped(radiusTiles, shape, mod, sd) ==
    LET scanRadius == radiusTiles + 8
        side == 2 * scanRadius + 1
        scan == [n \in 1..(side * side) |->
                    [offsetX |-> (((((n - 1) % side) - scanRadius) \div 2) * 2) * TILE_SIZE,
                     offsetY |-> (((n - 1) \div side) - scanRadius) * TILE_SIZE,
                     texture |-> scanCell(((n - 1) % side) - scanRadius,
                                          ((n - 1) \div side) - scanRadius,
                                          radiusTiles, shape, mod, sd)]]
    IN  SelectSeq(scan, LAMBDA tile : tile.texture # "none")

\* the tiles pushed by the scan over dy, dx in -scanRadius..scanRadius, in order
scanTiles(radiusTiles, shape, mod, sd) ==
    LET scanRadius == radiusTiles + 8
        side == 2 * scanRadius + 1
        scan == [n \in 1..(side * side) |->
                    [offsetX |-> (((n - 1) % side) - scanRadius) * TILE_SIZE,
                     offsetY |-> (((n - 1) \div side) - scanRadius) * TILE_SIZE,
                     texture |-> scanCell(((n - 1) % side) - scanRadius,
                                          ((n - 1) \div side) - scanRadius,
                                          radiusTiles, shape, mod, sd)]]
    IN  SelectSeq(scan, LAMBDA tile : tile.texture # "none")

\* radius and tile offsets are in pixels, the center in sub-pixels
buildIsland(id, centerX, centerY, baseRadius, shape, sd) ==
    [id |-> id, centerX |-> centerX, centerY |-> centerY,
     radius |-> baseRadius * TILE_SIZE,
     tiles |-> scanTiles(baseRadius, shape, shapeModifiers(shape, sd), sd)]

----------------------------------------------------------------------------
(* Shape synthesizer: generateIslandsForChunk *)

\* the candidate island of index i: center in sub-pixels, baseRadius in tiles
islandCandidate(chunkX, chunkY, sd, i) ==
    LET \* offset = r * CHUNK_SIZE * 0.6 + CHUNK_SIZE * 0.2 tiles, here in sub-pixels
        offsetX == ((seededRandom(chunkX, chunkY, sd + i * 10) * CHUNK_SIZE * 6 * TILE_SIZE * Sub)
                       \div (10 * RandDen)) + ((CHUNK_SIZE * 2 * TILE_SIZE * Sub) \div 10)
        offsetY == ((seededRandom(chunkX, chunkY, sd + i * 10 + 1) * CHUNK_SIZE * 6 * TILE_SIZE * Sub)
                       \div (10 * RandDen)) + ((CHUNK_SIZE * 2 * TILE_SIZE * Sub) \div 10)
    IN  [centerX |-> chunkX * CHUNK_SIZE * TILE_SIZE * Sub + offsetX,
         centerY |-> chunkY * CHUNK_SIZE * TILE_SIZE * Sub + offsetY,
         baseRadius |-> FloorMul(seededRandom(chunkX, chunkY, sd + i * 10 + 2), 10) + 8]

\* estimatedRadius = baseRadius * TILE_SIZE * 1.8, in sub-pixels
estimatedRadius(baseRadius) == (baseRadius * TILE_SIZE * 18 * Sub) \div 10

\* islands.some(existing => distance < estimatedRadius + existing.radius + 50)
wouldOverlap(islands, centerX, centerY, estimated) ==
    \E n \in 1..Len(islands) :
        Sq(centerX - islands[n].centerX) + Sq(centerY - islands[n].centerY)
            < Sq(estimated + islands[n].radius * Sub + 50 * Sub)

islandShapeOf(shapeType) ==
    IF Below(shapeType, 3, 10) THEN "circle"
    ELSE IF Below(shapeType, 5, 10) THEN "oval"
    ELSE IF Below(shapeType, 65, 100) THEN "diagonal"
    ELSE "irregular"

islandShape(chunkX, chunkY, sd, i) ==
    islandShapeOf(seededRandom(chunkX, chunkY, sd + i * 10 + 3))

\* an id without the chunk row
islandIdNoRow(chunkX, chunkY, i) == ToString(chunkX) \o "," \o ToString(i)

islandId(chunkX, chunkY, i) ==
    ToString(chunkX) \o "," \o ToString(chunkY) \o "," \o ToString(i)

\* a loop body that relocates a rejected candidate one chunk to the right
tryIslandRelocating(chunkX, chunkY, sd, i, islands, cand) ==
    IF wouldOverlap(islands, cand.centerX, cand.centerY, estimatedRadius(cand.baseRadius))
    THEN Append(islands,
                buildIsland(islandId(chunkX, chunkY, i),
                            cand.centerX + CHUNK_SIZE * TILE_SIZE * Sub, cand.centerY,
                            cand.baseRadius, islandShape(chunkX, chunkY, sd, i),
                            sd + i * 100))
    ELSE Append(islands,
                buildIsland(islandId(chunkX, chunkY, i), cand.centerX, cand.centerY,
                            cand.baseRadius, islandShape(chunkX, chunkY, sd, i),
                            sd + i * 100))

\* one pass of the loop: the islands array after candidate i was tried
tryIsland(chunkX, chunkY, sd, i, islands, cand) ==
    IF wouldOverlap(islands, cand.centerX, cand.centerY, estimatedRadius(cand.baseRadius))
    THEN islands
    ELSE Append(islands,
                buildIsland(islandId(chunkX, chunkY, i), cand.centerX, cand.centerY,
                            cand.baseRadius, islandShape(chunkX, chunkY, sd, i),
                            sd + i * 100))

RECURSIVE placeIslands(_, _, _, _, _, _)
\* the loop "for (let i = 0; i < islandCount; i++)" from index i on
placeIslands(chunkX, chunkY, sd, i, islandCount, islands) ==
    IF i >= islandCount THEN islands
    ELSE placeIslands(chunkX, chunkY, sd, i + 1, islandCount,
                      tryIsland(chunkX, chunkY, sd, i, islands,
                                islandCandidate(chunkX, chunkY, sd, i)))

\* generateIslandsForChunk with the threshold 0.5 for 0.3
generateIslandsForChunkHalf(chunkX, chunkY, sd) ==
    IF Below(seededRandom(chunkX, chunkY, sd), 5, 10)
    THEN placeIslands(chunkX, chunkY, sd, 0,
                      FloorMul(seededRandom(chunkX, chunkY, sd + 100), 3) + 1, <<>>)
    ELSE <<>>

generateIslandsForChunk(chunkX, chunkY, sd) ==
    IF Below(seededRandom(chunkX, chunkY, sd), 3, 10)
    THEN placeIslands(chunkX, chunkY, sd, 0,
                      FloorMul(seededRandom(chunkX, chunkY, sd + 100), 3) + 1, <<>>)
    ELSE <<>>

----------------------------------------------------------------------------
(* Deep-water patch synthesizer: generateDeepOceanPatches *)

patchCount(chunkX, chunkY, sd) == FloorMul(seededRandom(chunkX, chunkY, sd + 9000), 6) + 3

\* the candidate patch of index i: center in sub-pixels, patchSize in tiles
patchCandidate(chunkX, chunkY, sd, i) ==
    [globalX |-> (chunkX * CHUNK_SIZE
                     + FloorMul(seededRandom(chunkX, chunkY, sd + 9000 + i * 3), CHUNK_SIZE))
                 * TILE_SIZE * Sub,
     globalY |-> (chunkY * CHUNK_SIZE
                     + FloorMul(seededRandom(chunkX, chunkY, sd + 9000 + i * 3 + 1), CHUNK_SIZE))
                 * TILE_SIZE * Sub,
     patchSize |-> FloorMul(seededRandom(chunkX, chunkY, sd + 9000 + i * 3 + 2), 5) + 3]

\* farFromIslands with "some" for "every"
farFromIslandsSome(islands, globalX, globalY) ==
    islands = <<>> \/ \E n \in 1..Len(islands) :
        Sq(globalX - islands[n].centerX) + Sq(globalY - islands[n].centerY)
            > Sq((islands[n].radius + 100) * Sub)

\* islands.every(island => dist > island.radius + 100)
farFromIslands(islands, globalX, globalY) ==
    \A n \in 1..Len(islands) :
        Sq(globalX - islands[n].centerX) + Sq(globalY - islands[n].centerY)
            > Sq((islands[n].radius + 100) * Sub)

\* the two nested loops over py, px in -patchSize..patchSize, in push order
patchPoints(globalX, globalY, patchSize) ==
    LET side == 2 * patchSize + 1
        scan == [n \in 1..(side * side) |->
                    [px |-> ((n - 1) % side) - patchSize,
                     py |-> ((n - 1) \div side) - patchSize]]
        push(kept) == [n \in 1..Len(kept) |->
                          [x |-> globalX + kept[n].px * TILE_SIZE * Sub,
                           y |-> globalY + kept[n].py * TILE_SIZE * Sub]]
    IN  push(SelectSeq(scan, LAMBDA c : Sq(c.px) + Sq(c.py) <= Sq(patchSize)))

\* a loop body that moves a rejected candidate 20 tiles to the right and tries again
tryPatchRelocating(islands, acc, c) ==
    IF farFromIslands(islands, c.globalX, c.globalY)
    THEN [patches |-> acc.patches \o patchPoints(c.globalX, c.globalY, c.patchSize),
          centers |-> Append(acc.centers, c)]
    ELSE IF farFromIslands(islands, c.globalX + 20 * TILE_SIZE * Sub, c.globalY)
    THEN [patches |-> acc.patches
                          \o patchPoints(c.globalX + 20 * TILE_SIZE * Sub, c.globalY, c.patchSize),
          centers |-> Append(acc.centers, [c EXCEPT !.globalX = @ + 20 * TILE_SIZE * Sub])]
    ELSE acc

\* one pass of the loop; acc.patches is the array being filled, acc.centers
\* the candidates accepted so far
tryPatch(islands, acc, c) ==
    IF farFromIslands(islands, c.globalX, c.globalY)
    THEN [patches |-> acc.patches \o patchPoints(c.globalX, c.globalY, c.patchSize),
          centers |-> Append(acc.centers, c)]
    ELSE acc

RECURSIVE placePatches(_, _, _, _, _, _)
\* the loop over the candidates from index i on
placePatches(chunkX, chunkY, sd, islands, i, acc) ==
    IF i >= patchCount(chunkX, chunkY, sd) THEN acc
    ELSE placePatches(chunkX, chunkY, sd, islands, i + 1,
                      tryPatch(islands, acc, patchCandidate(chunkX, chunkY, sd, i)))

generateDeepOceanPatches(chunkX, chunkY, sd, islands) ==
    placePatches(chunkX, chunkY, sd, islands, 0, [patches |-> <<>>, centers |-> <<>>]).patches

----------------------------------------------------------------------------
(* Cloud builder: buildCloudFormation *)

\* aspectRatio as a numerator over 1000 * RandDen
aspectRatioOf(aspectRatioRand, sd) ==
    IF Below(aspectRatioRand, 33, 100) THEN 600 * RandDen + 200 * seededRandom(0, 3, sd)
    ELSE IF Below(aspectRatioRand, 66, 100) THEN 1200 * RandDen + 400 * seededRandom(0, 4, sd)
    ELSE 900 * RandDen + 200 * seededRandom(0, 5, sd)

aspectRatio(sd) == aspectRatioOf(seededRandom(0, 2, sd), sd)

\* the tile at the elliptical offset (offsetX, offsetY), in sub-pixels, turned
\* by rotation degrees and snapped to the tile grid; distanceFactor in thousandths
cloudTileAt(offsetX, offsetY, rotation, distanceFactor) ==
    [offsetX |-> Round(offsetX * Cos(rotation) - offsetY * Sin(rotation),
                       1000 * Sub * TILE_SIZE) * TILE_SIZE,
     offsetY |-> Round(offsetX * Sin(rotation) + offsetY * Cos(rotation),
                       1000 * Sub * TILE_SIZE) * TILE_SIZE,
     texture |-> IF distanceFactor < 700 THEN "cloudCovered" ELSE "cloudLessCoverOcean"]

\* the elliptical offset at angle degrees; width and height in sub-pixels
cloudTileOn(angle, distanceFactor, width, height, rotation) ==
    cloudTileAt((((Cos(angle) * width) \div 1000) * distanceFactor) \div 1000,
                (((Sin(angle) * height) \div 1000) * distanceFactor) \div 1000,
                rotation, distanceFactor)

\* pass i of the tile loop
cloudTile(i, width, height, rotation, sd) ==
    cloudTileOn((360 * seededRandom(i, 0, sd)) \div RandDen,
                ((seededRandom(i, 1, sd) + seededRandom(i, 2, sd)) * 950) \div (2 * RandDen),
                width, height, rotation)

cloudTiles(tileCount, width, height, rotation, sd) ==
    [n \in 1..tileCount |-> cloudTile(n - 1, width, height, rotation, sd)]

\* width = radius * aspectRatio * CLOUD_SIZE and
\* height = radius / aspectRatio * 0.8 * CLOUD_SIZE, in sub-pixels;
\* width * height = radius^2 * 0.8 * CLOUD_SIZE^2 whatever the aspect ratio
cloudShape(radius, aspect, sd) ==
    cloudTiles((radius * radius * 8 * 3 * CLOUD_SIZE * CLOUD_SIZE) \div (10 * TILE_SIZE * TILE_SIZE),
               (radius * aspect * CLOUD_SIZE * Sub) \div (1000 * RandDen),
               (radius * 8 * 100 * RandDen * CLOUD_SIZE * Sub) \div aspect,
               (180 * seededRandom(0, 6, sd)) \div RandDen, sd)

\* radius and tile offsets are in pixels, the center in sub-pixels
buildCloudFormation(id, centerX, centerY, radius, sd) ==
    [id |-> id, centerX |-> centerX, centerY |-> centerY, radius |-> radius,
     tiles |-> cloudShape(radius, aspectRatio(sd), sd)]

----------------------------------------------------------------------------
(* Cloud formation synthesizer: generateCloudsForChunk *)

maxAttempts == 10

\* checkOverlap without the buffer
checkOverlapNoBuffer(clouds, x, y, radius) ==
    \E n \in 1..Len(clouds) :
        Sq(x - clouds[n].centerX) + Sq(y - clouds[n].centerY)
            < Sq((radius * CLOUD_SIZE + clouds[n].radius * CLOUD_SIZE) * Sub)

\* clouds.some(cloud => distance < radius*CLOUD_SIZE + cloud.radius*CLOUD_SIZE + buffer)
checkOverlap(clouds, x, y, radius) ==
    \E n \in 1..Len(clouds) :
        Sq(x - clouds[n].centerX) + Sq(y - clouds[n].centerY)
            < Sq((radius * CLOUD_SIZE + clouds[n].radius * CLOUD_SIZE + 150 * CLOUD_SIZE) * Sub)

\* one pass of the do-while body for slot i after `attempts` earlier passes
cloudCandidate(chunkX, chunkY, sd, i, attempts) ==
    [centerX |-> chunkX * CHUNK_SIZE * TILE_SIZE * Sub
                    + ((seededRandom(chunkX, chunkY, sd + 8000 + i * 5 + attempts)
                           * CHUNK_SIZE * TILE_SIZE * Sub) \div RandDen),
     centerY |-> chunkY * CHUNK_SIZE * TILE_SIZE * Sub
                    + ((seededRandom(chunkX, chunkY, sd + 8000 + i * 5 + 1 + attempts)
                           * CHUNK_SIZE * TILE_SIZE * Sub) \div RandDen),
     radius |-> FloorMul(seededRandom(chunkX, chunkY, sd + 8000 + i * 5 + 2 + attempts), 100) + 1,
     attempts |-> attempts + 1]

RECURSIVE drawCloud(_, _, _, _, _, _)
\* do { ... } while (checkOverlap(centerX, centerY, radius) && attempts < maxAttempts),
\* c being the candidate just drawn
drawCloud(chunkX, chunkY, sd, i, clouds, c) ==
    IF checkOverlap(clouds, c.centerX, c.centerY, c.radius) /\ c.attempts < maxAttempts
    THEN drawCloud(chunkX, chunkY, sd, i, clouds,
                   cloudCandidate(chunkX, chunkY, sd, i, c.attempts))
    ELSE c

\* tryCloud with ">" for ">=" in the skip test
tryCloudStrict(chunkX, chunkY, sd, i, clouds, c) ==
    IF c.attempts > maxAttempts /\ checkOverlap(clouds, c.centerX, c.centerY, c.radius)
    THEN clouds
    ELSE Append(clouds,
                buildCloudFormation(islandId(chunkX, chunkY, i), c.centerX, c.centerY,
                                    c.radius, sd + i * 50))

\* the clouds array after slot i, c being the candidate the do-while ended on
tryCloud(chunkX, chunkY, sd, i, clouds, c) ==
    IF c.attempts >= maxAttempts /\ checkOverlap(clouds, c.centerX, c.centerY, c.radius)
    THEN clouds
    ELSE Append(clouds,
                buildCloudFormation(islandId(chunkX, chunkY, i), c.centerX, c.centerY,
                                    c.radius, sd + i * 50))

\* a cloudCount without the "+ 1"
cloudCountFromZero(chunkX, chunkY, sd) == FloorMul(seededRandom(chunkX, chunkY, sd + 7000), 4)

cloudCount(chunkX, chunkY, sd) == FloorMul(seededRandom(chunkX, chunkY, sd + 7000), 3) + 1

RECURSIVE placeClouds(_, _, _, _, _)
\* the loop over the cloud slots from index i on
placeClouds(chunkX, chunkY, sd, i, clouds) ==
    IF i >= cloudCount(chunkX, chunkY, sd) THEN clouds
    ELSE placeClouds(chunkX, chunkY, sd, i + 1,
                     tryCloud(chunkX, chunkY, sd, i, clouds,
                              drawCloud(chunkX, chunkY, sd, i, clouds,
                                        cloudCandidate(chunkX, chunkY, sd, i, 0))))

\* a generateCloudsForChunk that keeps the clouds clear of the islands passed
generateCloudsForChunkClearing(chunkX, chunkY, sd, islands) ==
    SelectSeq(placeClouds(chunkX, chunkY, sd, 0, <<>>),
              LAMBDA cloud : farFromIslands(islands, cloud.centerX, cloud.centerY))

generateCloudsForChunk(chunkX, chunkY, sd, islands) ==
    placeClouds(chunkX, chunkY, sd, 0, <<>>)

----------------------------------------------------------------------------
(* Chunk builder *)

\* the Chunk record returned
chunkOf(chunkX, chunkY, sd, islands) ==
    [chunkX |-> chunkX, chunkY |-> chunkY, islands |-> islands,
     clouds |-> generateCloudsForChunk(chunkX, chunkY, sd, islands),
     deepOceanPatches |-> generateDeepOceanPatches(chunkX, chunkY, sd, islands)]

\* a generateChunk whose draws also depend on how many chunks were built before
generateChunkCounting(chunkX, chunkY, sd) ==
    chunkOf(chunkX, chunkY, sd + Cardinality(DOMAIN heap),
            generateIslandsForChunk(chunkX, chunkY, sd + Cardinality(DOMAIN heap)))

generateChunk(chunkX, chunkY, sd) ==
    chunkOf(chunkX, chunkY, sd, generateIslandsForChunk(chunkX, chunkY, sd))

----------------------------------------------------------------------------
(* generateChunk reads nothing but its arguments; its values over the      *)
(* inputs of the model are tabulated, and a call is a look-up.             *)

\* TerrainLayer: the radius of getChunksInRadius and the keepRadius of cleanup
VisibleRadius == 2
KeepRadius == 4

\* the coordinates the cache machine and the terrain machine can ask for
CacheXs ==
    ((0 - MaxRadius)..(MaxCoordX + MaxRadius))
        \cup ((0 - VisibleRadius)..(MaxTerrainX + VisibleRadius))
CacheYs ==
    ((0 - MaxRadius)..(MaxCoordY + MaxRadius))
        \cup ((0 - VisibleRadius)..(MaxTerrainY + VisibleRadius))
GenCoords == -1..MaxGenCoord

CacheChunks ==
    [sd \in 0..MaxSeed |-> [x \in CacheXs |-> [y \in CacheYs |-> generateChunk(x, y, sd)]]]
GenChunks ==
    [sd \in 0..MaxGenSeed |-> [x \in GenCoords |-> [y \in GenCoords |-> generateChunk(x, y, sd)]]]

\* generateChunk(chunkX, chunkY, this.seed) of the cache
generatedForCache(chunkX, chunkY, sd) == CacheChunks[sd][chunkX][chunkY]

\* a direct generateChunk(chunkX, chunkY, seed)
generated(chunkX, chunkY, sd) == GenChunks[sd][chunkX][chunkY]

----------------------------------------------------------------------------
(* Chunk cache: class ChunkCache.  A cache state st is [cache, heap]: the  *)
(* Map from key string to Chunk reference and the Chunk objects built so   *)
(* far.  A reference [key, n] names the n-th Chunk object built for a key. *)
(* Each method is the function from the state before to the state after    *)
(* and the value returned.                                                 *)

getKey(chunkX, chunkY) == ToString(chunkX) \o "," \o ToString(chunkY)

\* the reference of the object a "new" for this key yields
newRef(h, key) == [key |-> key, n |-> Cardinality({r \in DOMAIN h : r.key = key}) + 1]

\* a set that clears the Map first
setChunkAlone(st, key, ref, chunk) ==
    [cache |-> (key :> ref), heap |-> (ref :> chunk) @@ st.heap, ret |-> ref]

\* the cache after this.cache.set(key, chunk) with a Chunk just built
setChunk(st, key, ref, chunk) ==
    [cache |-> (key :> ref) @@ [k \in DOMAIN st.cache \ {key} |-> st.cache[k]],
     heap |-> (ref :> chunk) @@ st.heap,
     ret |-> ref]

\* a getChunk that builds and stores without looking the key up
getChunkAlways(st, chunkX, chunkY) ==
    setChunk(st, getKey(chunkX, chunkY), newRef(st.heap, getKey(chunkX, chunkY)),
             generatedForCache(chunkX, chunkY, seed))

getChunk(st, chunkX, chunkY) ==
    IF getKey(chunkX, chunkY) \notin DOMAIN st.cache
    THEN setChunk(st, getKey(chunkX, chunkY), newRef(st.heap, getKey(chunkX, chunkY)),
                  generatedForCache(chunkX, chunkY, seed))
    ELSE [cache |-> st.cache, heap |-> st.heap, ret |-> st.cache[getKey(chunkX, chunkY)]]

\* chunks.push(got), got being what this.getChunk returned and left behind
pushChunk(chunks, got) ==
    [cache |-> got.cache, heap |-> got.heap, ret |-> Append(chunks, got.ret)]

RECURSIVE radiusLoopExclusive(_, _, _, _, _)
\* the loops with "<" for "<=": dy, dx in -radius..radius-1
radiusLoopExclusive(acc, centerChunkX, centerChunkY, radius, n) ==
    IF n >= Sq(2 * radius) THEN acc
    ELSE radiusLoopExclusive(
             pushChunk(acc.ret, getChunk(acc, centerChunkX + ((n % (2 * radius)) - radius),
                                         centerChunkY + ((n \div (2 * radius)) - radius))),
             centerChunkX, centerChunkY, radius, n + 1)

RECURSIVE radiusLoop(_, _, _, _, _)
\* pass n (from 0) of the nested loops over dy, dx in -radius..radius; acc is
\* the cache state with the chunks array in acc.ret
radiusLoop(acc, centerChunkX, centerChunkY, radius, n) ==
    IF n >= Sq(2 * radius + 1) THEN acc
    ELSE radiusLoop(
             pushChunk(acc.ret, getChunk(acc, centerChunkX + ((n % (2 * radius + 1)) - radius),
                                         centerChunkY + ((n \div (2 * radius + 1)) - radius))),
             centerChunkX, centerChunkY, radius, n + 1)

getChunksInRadiusExclusive(st, centerChunkX, centerChunkY, radius) ==
    radiusLoopExclusive([cache |-> st.cache, heap |-> st.heap, ret |-> <<>>],
                        centerChunkX, centerChunkY, radius, 0)

getChunksInRadius(st, centerChunkX, centerChunkY, radius) ==
    radiusLoop([cache |-> st.cache, heap |-> st.heap, ret |-> <<>>],
               centerChunkX, centerChunkY, radius, 0)

\* toDelete with "&&" for "||"
toDeleteBoth(st, centerChunkX, centerChunkY, keepRadius) ==
    {key \in DOMAIN st.cache :
        Abs(st.heap[st.cache[key]].chunkX - centerChunkX) > keepRadius
            /\ Abs(st.heap[st.cache[key]].chunkY - centerChunkY) > keepRadius}

\* toDelete with a Euclidean keep window
toDeleteEuclid(st, centerChunkX, centerChunkY, keepRadius) ==
    {key \in DOMAIN st.cache :
        Sq(st.heap[st.cache[key]].chunkX - centerChunkX)
            + Sq(st.heap[st.cache[key]].chunkY - centerChunkY) > Sq(keepRadius)}

\* toDelete with ">=" for ">"
toDeleteAtEdge(st, centerChunkX, centerChunkY, keepRadius) ==
    {key \in DOMAIN st.cache :
        Abs(st.heap[st.cache[key]].chunkX - centerChunkX) >= keepRadius
            \/ Abs(st.heap[st.cache[key]].chunkY - centerChunkY) >= keepRadius}

\* the keys cleanup collects in toDelete
toDelete(st, centerChunkX, centerChunkY, keepRadius) ==
    {key \in DOMAIN st.cache :
        Abs(st.heap[st.cache[key]].chunkX - centerChunkX) > keepRadius
            \/ Abs(st.heap[st.cache[key]].chunkY - centerChunkY) > keepRadius}

\* a delete that also empties the arrays of the chunks it takes out
deleteKeysReleasing(st, gone) ==
    [cache |-> [key \in DOMAIN st.cache \ gone |-> st.cache[key]],
     heap |-> [r \in DOMAIN st.heap |->
                  IF \E key \in gone : st.cache[key] = r
                  THEN [st.heap[r] EXCEPT !.islands = <<>>, !.clouds = <<>>,
                                          !.deepOceanPatches = <<>>]
                  ELSE st.heap[r]]]

\* toDelete.forEach(key => this.cache.delete(key))
deleteKeys(st, gone) ==
    [cache |-> [key \in DOMAIN st.cache \ gone |-> st.cache[key]], heap |-> st.heap]

cleanup(st, centerChunkX, centerChunkY, keepRadius) ==
    deleteKeys(st, toDelete(st, centerChunkX, centerChunkY, keepRadius))

----------------------------------------------------------------------------
(* Game state: the GameContext provider's useState record and its setters. *)
(* Lengths are in model length units, elapsed time in thirtieths of a      *)
(* second, rotations in eighths of a turn, zoom in hundredths.  A setter   *)
(* is the updater it queues, prev => next; handlers read the state of the  *)
(* render whose closure they are and queue updaters on the committed one.  *)
(* cameraOffset, contentItems, isMobile, isPortrait and mapSeed are left   *)
(* out: no handler modelled here reads them.                               *)

MIN_ZOOM == 50
MAX_ZOOM == 200
ZOOM_STEP == 10
ROTATION_LERP_FACTOR == 30
\* Math.PI * 2, in eighths of a turn
Turn == 8

\* mapBounds: null
NoBounds == <<>>

initialState ==
    [playerPosition |-> [x |-> 0, y |-> 0], playerVelocity |-> [vx |-> 0, vy |-> 0],
     playerRotation |-> 0, targetRotation |-> 0, zoom |-> 100,
     contentItemTextures |-> FALSE, isReady |-> FALSE, assetsLoaded |-> FALSE,
     showDirectionalArrows |-> TRUE, isResetting |-> FALSE, mapBounds |-> NoBounds]

updatePlayerPosition(prev, x, y) == [prev EXCEPT !.playerPosition = [x |-> x, y |-> y]]
updatePlayerVelocity(prev, vx, vy) == [prev EXCEPT !.playerVelocity = [vx |-> vx, vy |-> vy]]
setPlayerRotation(prev, rotation) == [prev EXCEPT !.playerRotation = rotation]
setTargetRotation(prev, rotation) == [prev EXCEPT !.targetRotation = rotation]

Max(a, b) == IF a >= b THEN a ELSE b
Min(a, b) == IF a <= b THEN a ELSE b

\* a setZoom that stores its argument as it comes
setZoomUnclamped(prev, zoom) == [prev EXCEPT !.zoom = zoom]

setZoom(prev, zoom) == [prev EXCEPT !.zoom = Max(MIN_ZOOM, Min(MAX_ZOOM, zoom))]

setContentItemTextures(prev) == [prev EXCEPT !.contentItemTextures = TRUE]
setMapBounds(prev, bounds) == [prev EXCEPT !.mapBounds = bounds]
setIsReady(prev, ready) == [prev EXCEPT !.isReady = ready]
setAssetsLoaded(prev, loaded) == [prev EXCEPT !.assetsLoaded = loaded]
hideDirectionalArrows(prev) == [prev EXCEPT !.showDirectionalArrows = FALSE]

\* resetPlayer, the updater queued at once
resetPlayer(prev) == [prev EXCEPT !.isResetting = TRUE]

\* a timeout updater that leaves the velocity as it is
resetTimeoutKeepingVelocity(prev) ==
    [prev EXCEPT !.playerPosition = [x |-> 0, y |-> 0],
                 !.playerRotation = 0, !.targetRotation = 0, !.zoom = 100,
                 !.showDirectionalArrows = TRUE, !.isResetting = FALSE]

\* resetPlayer, the updater of its setTimeout(..., 0) callback
resetTimeout(prev) ==
    [prev EXCEPT !.playerPosition = [x |-> 0, y |-> 0],
                 !.playerVelocity = [vx |-> 0, vy |-> 0],
                 !.playerRotation = 0, !.targetRotation = 0, !.zoom = 100,
                 !.showDirectionalArrows = TRUE, !.isResetting = FALSE]

----------------------------------------------------------------------------
(* Input controller: useInputController *)

\* PLAYER_SPEED and its diagonal component PLAYER_SPEED / sqrt(2), rounded
StraightSpeed == MaxSpeed
DiagonalSpeed == (MaxSpeed * 7 + 5) \div 10

\* a unit direction (dx, dy) scaled to PLAYER_SPEED, doubled with the spacebar held
component(d, other, spacebarHeld) ==
    d * (IF other # 0 THEN DiagonalSpeed ELSE StraightSpeed) * (IF spacebarHeld THEN 2 ELSE 1)

\* Math.atan2(dy, dx) + Math.PI / 2 for a direction of the eight, in eighths
atan2(dy, dx) ==
    IF dy = 0 THEN (IF dx > 0 THEN 0 ELSE 4)
    ELSE IF dy > 0 THEN 2 - dx
    ELSE dx - 2
headingOf(dx, dy) == atan2(dy, dx) + Turn \div 4

\* updatePlayerVelocity(vx, vy), then setTargetRotation and
\* hideDirectionalArrows when moving
steer(prev, dx, dy, spacebarHeld) ==
    IF dx = 0 /\ dy = 0
    THEN updatePlayerVelocity(prev, 0, 0)
    ELSE hideDirectionalArrows(
             setTargetRotation(
                 updatePlayerVelocity(prev, component(dx, dy, spacebarHeld),
                                      component(dy, dx, spacebarHeld)),
                 headingOf(dx, dy)))

\* handleWheel: one ZOOM_STEP in or out from the zoom of the render
handleWheel(prev, shown, deltaY) ==
    setZoom(prev, Max(MIN_ZOOM, Min(MAX_ZOOM,
                      shown.zoom + (IF deltaY > 0 THEN 0 - ZOOM_STEP ELSE ZOOM_STEP))))

\* handleTouchMove with two touches: delta = (distance - lastTouchDistance) * 0.01
pinch(prev, shown, delta) == setZoom(prev, Max(MIN_ZOOM, Min(MAX_ZOOM, shown.zoom + delta)))

----------------------------------------------------------------------------
(* Game loop: the useTick callback of Main *)

\* the JavaScript remainder: the sign of the dividend
Rem(a, n) == IF a >= 0 THEN a % n ELSE 0 - ((0 - a) % n)

\* ((new + bound) % total + total) % total - bound
wrap(new, bound) == Rem(Rem(new + bound, bound * 2) + bound * 2, bound * 2) - bound

\* rotationDiff, taken the shorter way round
rotationDiff(target, rotation) ==
    IF target - rotation > Turn \div 2 THEN target - rotation - Turn
    ELSE IF target - rotation < 0 - Turn \div 2 THEN target - rotation + Turn
    ELSE target - rotation

\* playerRotation + rotationDiff * ROTATION_LERP_FACTOR * deltaTime
newRotation(shown, delta) ==
    shown.playerRotation
        + (rotationDiff(shown.targetRotation, shown.playerRotation)
               * ROTATION_LERP_FACTOR * delta) \div 30

\* the setPlayerRotation of a tick, made when the velocity is not zero
turn(prev, shown, delta) ==
    IF shown.playerVelocity.vx # 0 \/ shown.playerVelocity.vy # 0
    THEN setPlayerRotation(prev, newRotation(shown, delta))
    ELSE prev

\* the body of the callback past its guard, delta thirtieths of a second
tick(prev, shown, delta) ==
    turn(updatePlayerPosition(prev,
             wrap(shown.playerPosition.x + shown.playerVelocity.vx * delta, shown.mapBounds[1]),
             wrap(shown.playerPosition.y + shown.playerVelocity.vy * delta, shown.mapBounds[2])),
         shown, delta)

----------------------------------------------------------------------------
(* Initialization: the runs of Main's initialize.  A run is at the await   *)
(* it is suspended on, or done, or failed (in the catch).                  *)

\* the map bounds loadAllContent may compute: positive on both axes
Bounds == {<<bx, by>> : bx \in (MaxBound - 1)..MaxBound, by \in {MaxBound - 1}}

newRun == [pc |-> "loadAssets", ready |-> FALSE]

\* the run past an await that resolved; readied: it has called setIsReady(true)
advance(run, readied) ==
    [run EXCEPT !.pc = IF run.pc = "loadAssets" THEN "loadAllContent"
                       ELSE IF run.pc = "loadAllContent" THEN "images"
                       ELSE "done",
                !.ready = readied]

\* an initialize that marks the game ready as soon as the content is loaded
resumeEager(prev, pc, bounds) ==
    IF pc = "loadAssets" THEN setAssetsLoaded(prev, TRUE)
    ELSE IF pc = "loadAllContent" THEN setIsReady(prev, TRUE)
    ELSE setIsReady(setContentItemTextures(setMapBounds(prev, bounds)), TRUE)

\* the setters initialize calls between the await at pc and the next one
resume(prev, pc, bounds) ==
    IF pc = "loadAssets" THEN setAssetsLoaded(prev, TRUE)
    ELSE IF pc = "loadAllContent" THEN setMapBounds(prev, bounds)
    ELSE setIsReady(setContentItemTextures(prev), TRUE)

\* the state of the game before anything has run
GameConstructed ==
    /\ state = initialState
    /\ rendered = initialState
    /\ timers = 0
    /\ runs = <<>>

\* TerrainLayer before it is mounted
TerrainUnmounted ==
    /\ current = <<0, 0>>
    /\ visibleChunks = <<>>
    /\ interval = <<>>

----------------------------------------------------------------------------
(* The cache machine: calls of the three methods in any order *)

NONE == [op |-> "none", chunkX |-> 0, chunkY |-> 0, radius |-> 0, ret |-> <<>>,
         built |-> {}, again |-> FALSE]
EMPTY == [key \in {} |-> 0]
Now == [cache |-> cache, heap |-> heap]

\* the objects built stay within the bounds of the run
WithinGen(h) == Cardinality(DOMAIN h) <= MaxChunks /\ \A r \in DOMAIN h : r.n <= MaxGen

\* history: the reference getChunk first returned for a key since the last cleanup
noteHanded(h, key, ref) == IF key \in DOMAIN h THEN h ELSE (key :> ref) @@ h

\* history: the references a cleanup took out of the cache
noteEvicted(e, before, after) ==
    [key \in DOMAIN e \cup (DOMAIN before \ DOMAIN after) |->
        IF key \in DOMAIN before \ DOMAIN after THEN before[key] ELSE e[key]]

Init ==
    /\ seed \in 0..MaxSeed
    /\ heap = EMPTY
    /\ cache = EMPTY
    /\ last = NONE
    /\ handed = EMPTY
    /\ evicted = EMPTY
    /\ GameConstructed
    /\ TerrainUnmounted

GetChunk ==
    \E chunkX \in 0..MaxCoordX, chunkY \in 0..MaxCoordY :
        \E r \in {getChunk(Now, chunkX, chunkY)} :
            /\ WithinGen(r.heap)
            /\ cache' = r.cache
            /\ heap' = r.heap
            /\ last' = [op |-> "getChunk", chunkX |-> chunkX, chunkY |-> chunkY, radius |-> 0,
                        ret |-> <<r.ret>>, built |-> DOMAIN r.heap \ DOMAIN heap,
                        again |-> getKey(chunkX, chunkY) \in DOMAIN handed]
            /\ handed' = noteHanded(handed, getKey(chunkX, chunkY), r.ret)
            /\ UNCHANGED <<seed, evicted>>
            /\ UNCHANGED <<gameVars, terrainVars>>

GetChunksInRadius ==
    \E centerChunkX \in 0..MaxCoordX, centerChunkY \in 0..MaxCoordY, radius \in 0..MaxRadius :
        \E r \in {getChunksInRadius(Now, centerChunkX, centerChunkY, radius)} :
            /\ WithinGen(r.heap)
            /\ cache' = r.cache
            /\ heap' = r.heap
            /\ last' = [op |-> "getChunksInRadius", chunkX |-> centerChunkX,
                        chunkY |-> centerChunkY, radius |-> radius,
                        ret |-> r.ret, built |-> DOMAIN r.heap \ DOMAIN heap,
                        again |-> FALSE]
            /\ UNCHANGED <<seed, handed, evicted>>
            /\ UNCHANGED <<gameVars, terrainVars>>

Cleanup ==
    \E centerChunkX \in 0..MaxCoordX, centerChunkY \in 0..MaxCoordY, keepRadius \in 0..MaxKeep :
        \E r \in {cleanup(Now, centerChunkX, centerChunkY, keepRadius)} :
            /\ cache' = r.cache
            /\ heap' = r.heap
            /\ last' = [op |-> "cleanup", chunkX |-> centerChunkX, chunkY |-> centerChunkY,
                        radius |-> keepRadius, ret |-> <<>>, built |-> {}, again |-> FALSE]
            /\ handed' = EMPTY
            /\ evicted' = noteEvicted(evicted, cache, r.cache)
            /\ UNCHANGED seed
            /\ UNCHANGED <<gameVars, terrainVars>>

Next == GetChunk \/ GetChunksInRadius \/ Cleanup

Spec == Init /\ [][Next]_vars

----------------------------------------------------------------------------
(* Direct generation: the exported generateChunk called on its own.  The   *)
(* n-th call's result is kept under the reference ["", n].                 *)

InitGen ==
    /\ seed \in 0..MaxGenSeed
    /\ heap = EMPTY
    /\ cache = EMPTY
    /\ last = NONE
    /\ handed = EMPTY
    /\ evicted = EMPTY
    /\ GameConstructed
    /\ TerrainUnmounted

GenerateChunk ==
    \E chunkX \in GenCoords, chunkY \in GenCoords :
        /\ Cardinality(DOMAIN heap) < MaxBuilds
        /\ heap' = (newRef(heap, "") :> generated(chunkX, chunkY, seed)) @@ heap
        /\ last' = [op |-> "generateChunk", chunkX |-> chunkX, chunkY |-> chunkY,
                    radius |-> 0, ret |-> <<newRef(heap, "")>>, built |-> {newRef(heap, "")},
                    again |-> FALSE]
        /\ UNCHANGED <<seed, cache, handed, evicted>>
        /\ UNCHANGED <<gameVars, terrainVars>>

NextGen == GenerateChunk

SpecGen == InitGen /\ [][NextGen]_vars

----------------------------------------------------------------------------
(* Island building: one buildIsland call as generateIslandsForChunk makes  *)
(* it, for candidate i of a chunk with the radius and the shape that the   *)
(* draws of lines 216 and 232 can give.  The island is kept under the      *)
(* reference ["", 1].                                                      *)

\* Math.floor(seededRandom(...) * 10) + 8 over the draws
BaseRadii == {FloorMul(v, 10) + 8 : v \in 0..(RandDen - 1)}

\* the shape families over the draws
Shapes == {islandShapeOf(v) : v \in 0..(RandDen - 1)}

InitIsland ==
    /\ seed \in 0..MaxIslandSeed
    /\ heap = EMPTY
    /\ cache = EMPTY
    /\ last = NONE
    /\ handed = EMPTY
    /\ evicted = EMPTY
    /\ GameConstructed
    /\ TerrainUnmounted

BuildIsland ==
    \E i \in 0..2, baseRadius \in BaseRadii, shape \in Shapes :
        /\ heap = EMPTY
        /\ heap' = (newRef(heap, "") :> buildIsland(islandId(0, 0, i), 0, 0, baseRadius,
                                                    shape, seed + i * 100)) @@ heap
        /\ last' = [op |-> "buildIsland", chunkX |-> 0, chunkY |-> 0, radius |-> baseRadius,
                    ret |-> <<newRef(heap, "")>>, built |-> {newRef(heap, "")},
                    again |-> FALSE, shape |-> shape, sd |-> seed + i * 100]
        /\ UNCHANGED <<seed, cache, handed, evicted>>
        /\ UNCHANGED <<gameVars, terrainVars>>

NextIsland == BuildIsland

SpecIsland == InitIsland /\ [][NextIsland]_vars

----------------------------------------------------------------------------
(* Cloud placement: generateCloudsForChunk called as generateChunk calls it *)
(* (line 567), with the islands of the chunk, and once more for the same   *)
(* chunk with no islands.  The clouds are kept with the chunk coordinate   *)
(* under the references ["", 1] and ["", 2]; last.passed is the islands    *)
(* argument of the latest call.                                            *)

CloudCoords == (0 - MaxCloudCoord)..MaxCloudCoord

\* what a call leaves behind
cloudsCall(chunkX, chunkY, sd, islands) ==
    [chunkX |-> chunkX, chunkY |-> chunkY,
     clouds |-> generateCloudsForChunk(chunkX, chunkY, sd, islands)]

InitClouds ==
    /\ seed \in 0..MaxCloudSeed
    /\ heap = EMPTY
    /\ cache = EMPTY
    /\ last = NONE
    /\ handed = EMPTY
    /\ evicted = EMPTY
    /\ GameConstructed
    /\ TerrainUnmounted

GenerateClouds ==
    \E chunkX \in CloudCoords, chunkY \in CloudCoords :
        \E islands \in {generateIslandsForChunk(chunkX, chunkY, seed)} :
            /\ heap = EMPTY
            /\ heap' = (newRef(heap, "") :> cloudsCall(chunkX, chunkY, seed, islands)) @@ heap
            /\ last' = [op |-> "generateCloudsForChunk", chunkX |-> chunkX, chunkY |-> chunkY,
                        radius |-> 0, ret |-> <<newRef(heap, "")>>,
                        built |-> {newRef(heap, "")}, passed |-> islands, calls |-> 1]
            /\ UNCHANGED <<seed, cache, handed, evicted>>
            /\ UNCHANGED <<gameVars, terrainVars>>

GenerateCloudsAgain ==
    /\ last.op = "generateCloudsForChunk" /\ last.calls = 1 /\ last.passed # <<>>
    /\ heap' = (newRef(heap, "") :> cloudsCall(last.chunkX, last.chunkY, seed, <<>>)) @@ heap
    /\ last' = [last EXCEPT !.ret = <<newRef(heap, "")>>, !.built = {newRef(heap, "")},
                            !.passed = <<>>, !.calls = 2]
    /\ UNCHANGED <<seed, cache, handed, evicted>>
    /\ UNCHANGED <<gameVars, terrainVars>>

NextClouds == GenerateClouds \/ GenerateCloudsAgain

SpecClouds == InitClouds /\ [][NextClouds]_vars

----------------------------------------------------------------------------
(* The game machine: the runs of initialize, the game loop, the input      *)
(* handlers and the reset, in any order.  Each action is one callback, run *)
(* to its end: the updaters it queues are applied to state in order.       *)
(* Render is React rendering the committed state, after which the          *)
(* callbacks read that state.                                              *)

Render ==
    /\ rendered # state
    /\ rendered' = state
    /\ UNCHANGED <<state, timers, runs>>
    /\ UNCHANGED <<cacheVars, terrainVars>>

\* the effect of Main: at mount, and again when the viewport size changes
Initialize ==
    /\ Len(runs) < MaxRuns
    /\ runs' = Append(runs, newRun)
    /\ UNCHANGED <<state, rendered, timers>>
    /\ UNCHANGED <<cacheVars, terrainVars>>

Awaiting(i) == runs[i].pc \in {"loadAssets", "loadAllContent", "images"}

\* the await of run i resolves and the run goes on to its next await
Resume ==
    \E i \in 1..Len(runs) :
        \E bounds \in IF runs[i].pc = "loadAllContent" THEN Bounds ELSE {NoBounds} :
            /\ Awaiting(i)
            /\ state' = resume(state, runs[i].pc, bounds)
            /\ runs' = [runs EXCEPT ![i] = advance(runs[i],
                                           resume(initialState, runs[i].pc, bounds).isReady)]
            /\ UNCHANGED <<rendered, timers>>
            /\ UNCHANGED <<cacheVars, terrainVars>>

\* the await of run i rejects: the catch logs the error
Fail ==
    \E i \in 1..Len(runs) :
        /\ Awaiting(i)
        /\ runs' = [runs EXCEPT ![i].pc = "failed"]
        /\ UNCHANGED <<state, rendered, timers>>
        /\ UNCHANGED <<cacheVars, terrainVars>>

\* the useTick callback: it returns at once unless the render it belongs to
\* shows the game ready with its bounds set
Tick ==
    \E delta \in 1..MaxDelta :
        /\ state' = IF rendered.isReady /\ rendered.mapBounds # NoBounds
                    THEN tick(state, rendered, delta)
                    ELSE state
        /\ Abs(state'.playerRotation) <= MaxRotation
        /\ UNCHANGED <<rendered, timers, runs>>
        /\ UNCHANGED <<cacheVars, terrainVars>>

\* the directions (dx, dy) tried, of the keys held or of the touch from the
\* screen center: none, right, left and down, up
Directions == {<<0, 0>>, <<1, 0>>, <<-1, 1>>, <<0, -1>>}

\* keydown or keyup: updateVelocityFromKeys with the keys then held
UpdateVelocityFromKeys ==
    \E d \in Directions, spacebarHeld \in BOOLEAN :
        /\ ~rendered.isResetting
        /\ state' = steer(state, d[1], d[2], spacebarHeld)
        /\ UNCHANGED <<rendered, timers, runs>>
        /\ UNCHANGED <<cacheVars, terrainVars>>

\* touchstart or touchmove with one touch (updateTouchDirection), or touchend
\* with none left (dx = dy = 0)
HandleTouch ==
    \E d \in Directions :
        /\ state' = steer(state, d[1], d[2], FALSE)
        /\ UNCHANGED <<rendered, timers, runs>>
        /\ UNCHANGED <<cacheVars, terrainVars>>

HandleWheel ==
    \E deltaY \in {-1, 1} :
        /\ state' = handleWheel(state, rendered, deltaY)
        /\ UNCHANGED <<rendered, timers, runs>>
        /\ UNCHANGED <<cacheVars, terrainVars>>

\* the changes of touch distance, in pixels
PinchDeltas == {0 - MaxPinch, 0 - (MaxPinch \div 8), MaxPinch \div 8, MaxPinch}

Pinch ==
    \E delta \in PinchDeltas :
        /\ state' = pinch(state, rendered, delta)
        /\ UNCHANGED <<rendered, timers, runs>>
        /\ UNCHANGED <<cacheVars, terrainVars>>

\* a setZoom call with any argument
SetZoom ==
    \E zoom \in {MIN_ZOOM - MaxPinch, MIN_ZOOM, MAX_ZOOM, MAX_ZOOM + MaxPinch} :
        /\ state' = setZoom(state, zoom)
        /\ UNCHANGED <<rendered, timers, runs>>
        /\ UNCHANGED <<cacheVars, terrainVars>>

\* the reset button or the R key
ResetPlayer ==
    /\ timers < MaxTimers
    /\ state' = resetPlayer(state)
    /\ timers' = timers + 1
    /\ UNCHANGED <<rendered, runs>>
    /\ UNCHANGED <<cacheVars, terrainVars>>

\* the callback of a pending setTimeout(..., 0)
ResetTimeout ==
    /\ timers > 0
    /\ state' = resetTimeout(state)
    /\ timers' = timers - 1
    /\ UNCHANGED <<rendered, runs>>
    /\ UNCHANGED <<cacheVars, terrainVars>>

CacheUnused ==
    /\ seed = 0
    /\ heap = EMPTY
    /\ cache = EMPTY
    /\ last = NONE
    /\ handed = EMPTY
    /\ evicted = EMPTY

\* the game as constructed, before the effect of Main has run
InitGame == CacheUnused /\ GameConstructed /\ TerrainUnmounted

\* the game once the first run of initialize is done and rendered
InitReady ==
    /\ CacheUnused /\ TerrainUnmounted
    /\ \E bounds \in Bounds :
           state = resume(resume(resume(initialState, "loadAssets", NoBounds),
                                 "loadAllContent", bounds), "images", NoBounds)
    /\ rendered = state
    /\ timers = 0
    /\ runs = <<advance(advance(advance(newRun, FALSE), FALSE), TRUE)>>

\* loading: the runs of initialize, with the game loop and the keys going
NextInit == Initialize \/ Resume \/ Fail \/ Tick \/ UpdateVelocityFromKeys \/ Render

SpecInit == InitGame /\ [][NextInit]_vars

\* play: the game loop, the keys and the reset, with initialize run again when
\* the viewport changes
NextLoop ==
    \/ Initialize \/ Resume \/ Fail \/ Tick \/ UpdateVelocityFromKeys
    \/ ResetPlayer \/ ResetTimeout \/ Render

SpecLoop == InitReady /\ [][NextLoop]_vars

\* a timeout callback runs once it is due
SpecLoopLive == SpecLoop /\ WF_vars(ResetTimeout)

\* zoom: every way to change the zoom, and the reset
NextZoom ==
    \/ HandleWheel \/ Pinch \/ SetZoom \/ HandleTouch \/ ResetPlayer \/ ResetTimeout \/ Render

SpecZoom == InitGame /\ [][NextZoom]_vars

----------------------------------------------------------------------------
(* The terrain machine: TerrainLayer with its ChunkCache.  A render with   *)
(* the player in another chunk recomputes visibleChunks and runs the       *)
(* effect again, which clears the interval and creates a new one; the      *)
(* interval callback runs IntervalSteps time steps after the interval was  *)
(* created or last fired.                                                  *)

TerrainChunks == (0..MaxTerrainX) \X (0..MaxTerrainY)

\* the keepRadius the interval callback would pass if it kept only the chunk
\* next to the current one
cleanupIntervalNarrow(st, currentChunk) == cleanup(st, currentChunk[1], currentChunk[2], 1)

\* the interval callback: chunkCache.cleanup(currentChunkX, currentChunkY, 4)
cleanupInterval(st, currentChunk) ==
    cleanup(st, currentChunk[1], currentChunk[2], KeepRadius)

\* the render of TerrainLayer for the chunk the player is in, and its effect
renderTerrain(currentChunk) ==
    \E r \in {getChunksInRadius(Now, currentChunk[1], currentChunk[2], VisibleRadius)} :
        /\ \A ref \in DOMAIN r.heap : ref.n <= MaxGen
        /\ current' = currentChunk
        /\ visibleChunks' = r.ret
        /\ cache' = r.cache
        /\ heap' = r.heap
        /\ last' = [op |-> "getChunksInRadius", chunkX |-> currentChunk[1],
                    chunkY |-> currentChunk[2], radius |-> VisibleRadius,
                    ret |-> r.ret, built |-> DOMAIN r.heap \ DOMAIN heap, again |-> FALSE]
        /\ interval' = <<0>>
        /\ UNCHANGED <<seed, handed, evicted>>
        /\ UNCHANGED gameVars

\* the first render, with the player at the origin
Mount ==
    /\ interval = <<>>
    /\ renderTerrain(<<0, 0>>)

\* a render with the player in another chunk
Move ==
    \E currentChunk \in TerrainChunks \ {current} :
        /\ interval # <<>>
        /\ renderTerrain(currentChunk)

\* a time step that does not complete the interval
Elapse ==
    /\ interval # <<>>
    /\ interval[1] + 1 < IntervalSteps
    /\ interval' = <<interval[1] + 1>>
    /\ UNCHANGED <<cacheVars, gameVars, current, visibleChunks>>

\* the time step that completes the interval: its callback runs
Fire ==
    \E r \in {cleanupInterval(Now, current)} :
        /\ interval # <<>>
        /\ interval[1] + 1 = IntervalSteps
        /\ cache' = r.cache
        /\ heap' = r.heap
        /\ last' = [op |-> "cleanup", chunkX |-> current[1], chunkY |-> current[2],
                    radius |-> KeepRadius, ret |-> <<>>, built |-> {}, again |-> FALSE]
        /\ handed' = EMPTY
        /\ evicted' = noteEvicted(evicted, cache, r.cache)
        /\ interval' = <<0>>
        /\ UNCHANGED <<seed, current, visibleChunks>>
        /\ UNCHANGED gameVars

NextTerrain == Mount \/ Move \/ Elapse \/ Fire

SpecTerrain == Init /\ [][NextTerrain]_vars

\* time passes: a time step is taken whenever one is possible
SpecTerrainLive == SpecTerrain /\ WF_vars(Elapse \/ Fire)

----------------------------------------------------------------------------
(* Properties of the chunk cache *)

IsGet(l) == l.op \in {"getChunk", "getChunksInRadius"}
LastKey == getKey(last.chunkX, last.chunkY)
\* the coordinates of the inclusive square of a call
Square(l) == {<<l.chunkX + dx, l.chunkY + dy>> : dx \in (0 - l.radius)..l.radius,
                                                   dy \in (0 - l.radius)..l.radius}
InWindow(chunk, l) ==
    Abs(chunk.chunkX - l.chunkX) <= l.radius /\ Abs(chunk.chunkY - l.chunkY) <= l.radius
SameContent(a, b) ==
    a.islands = b.islands /\ a.clouds = b.clouds /\ a.deepOceanPatches = b.deepOceanPatches

\* C1: a getChunk(x, y) returns the very object that the first getChunk(x, y)
\* since the last cleanup returned, whatever calls were made in between.
C1_GetChunkIdempotent ==
    last.op = "getChunk" => /\ LastKey \in DOMAIN handed
                            /\ last.ret[1] = handed[LastKey]

\* a second getChunk of a key, with no cleanup since the first
C1_Witness == last.op = "getChunk" /\ last.again /\ last.built = {}

\* C2: getChunksInRadius(cx, cy, r) returns (2r+1)^2 chunks, one per coordinate
\* of the inclusive square, each the object getChunk returns for its
\* coordinate, and every coordinate of the square is resident afterwards.
C2_RadiusComplete ==
    last.op = "getChunksInRadius" =>
        /\ Len(last.ret) = Sq(2 * last.radius + 1)
        /\ \A n \in 1..Len(last.ret) : last.ret[n] \in DOMAIN heap
        /\ {<<heap[last.ret[n]].chunkX, heap[last.ret[n]].chunkY>> : n \in 1..Len(last.ret)}
               = Square(last)
        /\ \A n \in 1..Len(last.ret) :
               LET c == heap[last.ret[n]]
                   g == getChunk(Now, c.chunkX, c.chunkY)
               IN  g.ret = last.ret[n] /\ g.cache = cache
        /\ \A c \in Square(last) : getKey(c[1], c[2]) \in DOMAIN cache

\* a radius-1 call that built some chunks and found others resident
C2_Witness ==
    /\ last.op = "getChunksInRadius" /\ last.radius = 1
    /\ last.built # {} /\ Cardinality(last.built) < 9

\* C3: after cleanup(cx, cy, k) the cache holds no chunk with |chunkX - cx| > k
\* or |chunkY - cy| > k.
C3_CleanupEvictsOutside ==
    last.op = "cleanup" =>
        \A key \in DOMAIN cache : InWindow(heap[cache[key]], last)

\* a cleanup that evicted a chunk off the window in one axis only and kept another
C3_Witness ==
    /\ last.op = "cleanup" /\ cache # EMPTY
    /\ \E key \in DOMAIN evicted :
           /\ key \notin DOMAIN cache
           /\ Abs(heap[evicted[key]].chunkX - last.chunkX) > last.radius
           /\ Abs(heap[evicted[key]].chunkY - last.chunkY) <= last.radius

\* C4: cleanup(cx, cy, k) keeps every resident chunk of the Chebyshev square
\* resident and the same object, and makes no absent key resident.
C4_CleanupKeepsWindow ==
    [][last'.op = "cleanup" =>
          /\ DOMAIN cache' \subseteq DOMAIN cache
          /\ \A key \in DOMAIN cache :
                 InWindow(heap[cache[key]], last') =>
                     key \in DOMAIN cache' /\ cache'[key] = cache[key]]_vars

\* a cleanup with k = 1 that kept the corner chunk (cx+1, cy+1) and evicted another
C4_Witness ==
    /\ last.op = "cleanup" /\ last.radius = 1
    /\ getKey(last.chunkX + 1, last.chunkY + 1) \in DOMAIN cache
    /\ \E key \in DOMAIN evicted : key \notin DOMAIN cache

\* C5: a getChunk(x, y) after the chunk at (x, y) was evicted returns a Chunk
\* object other than the evicted one, with equal islands, clouds and patches.
C5_RegeneratedEqual ==
    (last.op = "getChunk" /\ LastKey \in DOMAIN evicted) =>
        /\ last.ret[1] \in DOMAIN heap
        /\ last.ret[1] # evicted[LastKey]
        /\ heap[last.ret[1]].chunkX = last.chunkX /\ heap[last.ret[1]].chunkY = last.chunkY
        /\ SameContent(heap[last.ret[1]], heap[evicted[LastKey]])

\* the getChunk that rebuilt an evicted chunk which has island tiles, cloud
\* tiles and patches
C5_Witness ==
    /\ last.op = "getChunk" /\ LastKey \in DOMAIN evicted /\ last.built # {}
    /\ heap[last.ret[1]].deepOceanPatches # <<>>
    /\ \E n \in 1..Len(heap[last.ret[1]].islands) : heap[last.ret[1]].islands[n].tiles # <<>>
    /\ \E n \in 1..Len(heap[last.ret[1]].clouds) : heap[last.ret[1]].clouds[n].tiles # <<>>

\* C6: a key is absent or resident (resident: mapped to a built Chunk of its
\* own coordinate); it turns resident only in a getChunk/getChunksInRadius
\* call that covers it and absent only in a cleanup whose window excludes it.
C6_KeyLifecycle ==
    /\ [](\A key \in DOMAIN cache :
              /\ cache[key] \in DOMAIN heap
              /\ getKey(heap[cache[key]].chunkX, heap[cache[key]].chunkY) = key)
    /\ [][\A key \in DOMAIN cache \cup DOMAIN cache' :
              /\ (key \notin DOMAIN cache /\ key \in DOMAIN cache') =>
                     /\ IsGet(last')
                     /\ \E c \in Square(last') : key = getKey(c[1], c[2])
              /\ (key \in DOMAIN cache /\ key \notin DOMAIN cache') =>
                     /\ last'.op = "cleanup"
                     /\ ~InWindow(heap[cache[key]], last')]_vars

\* a key that went absent -> resident -> absent -> resident
C6_Witness == \E key \in DOMAIN cache : cache[key].n = 2

\* C14: no getChunk, getChunksInRadius or cleanup changes the record
\* (coordinates, islands, clouds, patches) of a Chunk object built before, and
\* a key resident before and after a call shows the same record.
C14_ChunksImmutable ==
    [][/\ \A r \in DOMAIN heap : r \in DOMAIN heap' /\ heap'[r] = heap[r]
       /\ \A key \in DOMAIN cache \cap DOMAIN cache' :
              heap'[cache'[key]] = heap[cache[key]]]_vars

\* a cleanup that took out a chunk with islands and kept another chunk
C14_Witness ==
    /\ last.op = "cleanup"
    /\ \E key \in DOMAIN cache : heap[cache[key]].clouds # <<>>
    /\ \E key \in DOMAIN evicted :
           key \notin DOMAIN cache /\ heap[evicted[key]].islands # <<>>

\* C25: getChunk(x, y) leaves every other key as it was, absent or resident
\* with the same object, and takes no key out of the cache.
C25_GetChunkFrame ==
    [][last'.op = "getChunk" =>
          /\ DOMAIN cache \subseteq DOMAIN cache'
          /\ DOMAIN cache' \subseteq DOMAIN cache \cup {getKey(last'.chunkX, last'.chunkY)}
          /\ \A key \in DOMAIN cache : cache'[key] = cache[key]]_vars

\* a getChunk that built a chunk beside a resident one
C25_Witness ==
    /\ last.op = "getChunk" /\ last.built # {}
    /\ Cardinality(DOMAIN cache) >= 2

\* the ids of the islands, or of the clouds, of a chunk
IdsOf(things) == {things[n].id : n \in 1..Len(things)}
\* the ids the chunk at (chunkX, chunkY) can give: "chunkX,chunkY,i"
OwnIds(chunk) == {getKey(chunk.chunkX, chunk.chunkY) \o "," \o ToString(i) : i \in 0..2}
Resident == {heap[cache[key]] : key \in DOMAIN cache}

\* C26: over the resident chunks, no island id occurs twice, in a chunk or in
\* two, and each id starts with the coordinates of its chunk; likewise for the
\* cloud ids.
C26_IdsDistinct ==
    /\ \A c \in Resident :
           /\ Cardinality(IdsOf(c.islands)) = Len(c.islands)
           /\ Cardinality(IdsOf(c.clouds)) = Len(c.clouds)
           /\ IdsOf(c.islands) \subseteq OwnIds(c)
           /\ IdsOf(c.clouds) \subseteq OwnIds(c)
    /\ \A c1 \in Resident, c2 \in Resident :
           (c1.chunkX # c2.chunkX \/ c1.chunkY # c2.chunkY) =>
               /\ IdsOf(c1.islands) \cap IdsOf(c2.islands) = {}
               /\ IdsOf(c1.clouds) \cap IdsOf(c2.clouds) = {}

\* two resident chunks with islands, in one column and in one row with others
C26_Witness ==
    /\ \E c1 \in Resident, c2 \in Resident :
           /\ c1.chunkX = c2.chunkX /\ c1.chunkY # c2.chunkY
           /\ c1.islands # <<>> /\ c2.islands # <<>>
    /\ \E c1 \in Resident, c2 \in Resident : c1.chunkX # c2.chunkX /\ c1.chunkY = c2.chunkY

----------------------------------------------------------------------------
(* Properties of chunk generation *)

Built == {heap[r] : r \in DOMAIN heap}
Dist2(ax, ay, bx, by) == Sq(ax - bx) + Sq(ay - by)
\* baseRadius * TILE_SIZE * 1.8 of a built island, in sub-pixels
Estimated(island) == (island.radius * 18 * Sub) \div 10
\* the candidates generateDeepOceanPatches accepted for a built chunk
AcceptedCenters(c) ==
    placePatches(c.chunkX, c.chunkY, seed, c.islands, 0,
                 [patches |-> <<>>, centers |-> <<>>]).centers

C8_IslandsClearEstimated ==
    \A c \in Built : \A a \in 1..Len(c.islands), b \in 1..Len(c.islands) :
        a < b => Dist2(c.islands[a].centerX, c.islands[a].centerY,
                       c.islands[b].centerX, c.islands[b].centerY)
                     >= Sq(Estimated(c.islands[a]) + Estimated(c.islands[b]) + 50 * Sub)

\* C9: every accepted deep-water patch center is strictly farther than
\* island.radius + 100 px from the center of every island of its chunk.
C9_PatchCentersClear ==
    \A c \in Built :
        LET centers == AcceptedCenters(c)
        IN  \A k \in 1..Len(centers), n \in 1..Len(c.islands) :
                Dist2(centers[k].globalX, centers[k].globalY,
                      c.islands[n].centerX, c.islands[n].centerY)
                    > Sq((c.islands[n].radius + 100) * Sub)

\* a chunk with islands in which a candidate was accepted and another rejected
C9_Witness ==
    \E c \in Built :
        /\ c.islands # <<>>
        /\ AcceptedCenters(c) # <<>>
        /\ Len(AcceptedCenters(c)) < patchCount(c.chunkX, c.chunkY, seed)

\* C10 as claimed: every point of deepOceanPatches is farther than
\* island.radius + 100 px from the center of every island of its chunk.
C10_PatchPointsClear ==
    \A c \in Built : \A k \in 1..Len(c.deepOceanPatches), n \in 1..Len(c.islands) :
        Dist2(c.deepOceanPatches[k].x, c.deepOceanPatches[k].y,
              c.islands[n].centerX, c.islands[n].centerY)
            > Sq((c.islands[n].radius + 100) * Sub)

\* the occupancy test and the candidate count of a built chunk
Occupied(c) == Below(seededRandom(c.chunkX, c.chunkY, seed), 3, 10)
IslandCount(c) == FloorMul(seededRandom(c.chunkX, c.chunkY, seed + 100), 3) + 1
\* the islands of c accepted for the candidates before candidate i
IslandsBefore(c, i) ==
    SelectSeq(c.islands, LAMBDA island :
                  \E j \in 0..(i - 1) : island.id = islandId(c.chunkX, c.chunkY, j))
\* the islands of c accepted for candidate i
IslandsOf(c, i) ==
    {n \in 1..Len(c.islands) : c.islands[n].id = islandId(c.chunkX, c.chunkY, i)}
\* candidate i passes the clearance test against the islands before it
Passes(c, i, cand) ==
    ~wouldOverlap(IslandsBefore(c, i), cand.centerX, cand.centerY,
                  estimatedRadius(cand.baseRadius))
\* the patch candidates drawn for a built chunk, and those far from its islands
Candidates(c) ==
    [n \in 1..patchCount(c.chunkX, c.chunkY, seed) |->
        patchCandidate(c.chunkX, c.chunkY, seed, n - 1)]
Kept(c) ==
    SelectSeq(Candidates(c), LAMBDA k : farFromIslands(c.islands, k.globalX, k.globalY))
RECURSIVE PointsOf(_, _)
\* the points of the first n of the candidates cands, cluster after cluster
PointsOf(cands, n) ==
    IF n = 0 THEN <<>>
    ELSE PointsOf(cands, n - 1)
             \o patchPoints(cands[n].globalX, cands[n].globalY, cands[n].patchSize)

\* C15: a chunk whose occupancy draw is >= 0.3 has no islands; a chunk whose
\* draw is < 0.3 has a candidate count floor(rand * 3) + 1 in 1..3 and no more
\* islands than that; no chunk has more than 3 islands.
C15_Occupancy ==
    \A c \in Built :
        /\ ~Occupied(c) => c.islands = <<>>
        /\ Occupied(c) => IslandCount(c) \in 1..3 /\ Len(c.islands) <= IslandCount(c)
        /\ Len(c.islands) <= 3

\* an unoccupied chunk and an occupied chunk with two islands, in one run
C15_Witness ==
    /\ \E c \in Built : ~Occupied(c)
    /\ \E c \in Built : Occupied(c) /\ Len(c.islands) = 2

\* C16: in an occupied chunk the island of id suffix i exists iff candidate i
\* passes the clearance test against the islands accepted for the candidates
\* before it, and is then built at candidate i's own draws (nothing is
\* re-drawn); the chunk has at least 1 island and at most the drawn count.
C16_NoRetry ==
    \A c \in Built :
        Occupied(c) =>
            /\ Len(c.islands) >= 1 /\ Len(c.islands) <= IslandCount(c)
            /\ IslandsOf(c, 0) # {}
            /\ \A n \in 1..Len(c.islands) :
                   \E i \in 0..(IslandCount(c) - 1) : n \in IslandsOf(c, i)
            /\ \A i \in 0..(IslandCount(c) - 1) :
                   LET cand == islandCandidate(c.chunkX, c.chunkY, seed, i)
                   IN  /\ Cardinality(IslandsOf(c, i)) <= 1
                       /\ (IslandsOf(c, i) # {}) <=> Passes(c, i, cand)
                       /\ \A n \in IslandsOf(c, i) :
                              /\ c.islands[n].centerX = cand.centerX
                              /\ c.islands[n].centerY = cand.centerY
                              /\ c.islands[n].radius = cand.baseRadius * TILE_SIZE

\* a chunk of three candidates: one accepted after the first, one rejected
C16_Witness ==
    \E c \in Built : Occupied(c) /\ IslandCount(c) = 3 /\ Len(c.islands) = 2

\* C20: the drawn patch count is in 3..8; deepOceanPatches holds, cluster after
\* cluster, the points of exactly the candidates that are far from every
\* island, each once and at its own draws; without islands that is every
\* candidate, with islands at most the drawn count.
C20_PatchClusters ==
    \A c \in Built :
        /\ patchCount(c.chunkX, c.chunkY, seed) \in 3..8
        /\ c.islands = <<>> => Len(Kept(c)) = patchCount(c.chunkX, c.chunkY, seed)
        /\ Len(Kept(c)) <= patchCount(c.chunkX, c.chunkY, seed)
        /\ c.deepOceanPatches = PointsOf(Kept(c), Len(Kept(c)))

\* a chunk without islands with all its clusters, and a chunk with islands
\* that lost a candidate, in one run
C20_Witness ==
    /\ \E c \in Built : c.islands = <<>> /\ c.deepOceanPatches # <<>>
    /\ \E c \in Built :
           /\ c.islands # <<>> /\ Kept(c) # <<>>
           /\ Len(Kept(c)) < patchCount(c.chunkX, c.chunkY, seed)

----------------------------------------------------------------------------
(* Properties of island building *)

Islands == {heap[r] : r \in DOMAIN heap}
Offsets(island) == {<<island.tiles[n].offsetX, island.tiles[n].offsetY>> :
                       n \in 1..Len(island.tiles)}
Textures(island) == {island.tiles[n].texture : n \in 1..Len(island.tiles)}
\* lo/10 <= d < hi/10 for d = sqrt(offsetX^2 + offsetY^2) / radius, both in pixels
InRing(tile, radius, lo, hi) ==
    /\ Sq(lo * radius) <= 100 * (Sq(tile.offsetX) + Sq(tile.offsetY))
    /\ 100 * (Sq(tile.offsetX) + Sq(tile.offsetY)) < Sq(hi * radius)
\* the band of normalized distance that the claim allows to a class, in tenths
RingOf == [mountain |-> <<0, 2>>, rocks |-> <<2, 4>>, tree |-> <<2, 6>>, soil |-> <<4, 6>>,
           grass |-> <<4, 8>>, sand |-> <<4, 10>>, shoal |-> <<8, 12>>,
           oceanShallow |-> <<12, 15>>, oceanSemiDeep |-> <<15, 18>>]

\* C11: within the tile list of an island, of whatever shape family, no
\* (offsetX, offsetY) pair occurs twice.
C11_OffsetsDistinct ==
    \A island \in Islands : Cardinality(Offsets(island)) = Len(island.tiles)

\* an irregular island with tiles (the four families are built, each in a run)
C11_Witness ==
    /\ last.op = "buildIsland" /\ last.shape = "irregular"
    /\ \E island \in Islands : Len(island.tiles) > 1

\* C13: every tile of a circle island has a class that the band of its
\* normalized distance d allows: mountain d < 0.2, rocks 0.2 <= d < 0.4, tree
\* 0.2 <= d < 0.6, soil 0.4 <= d < 0.6, grass 0.4 <= d < 0.8, sand 0.4 <= d < 1.0,
\* shoal 0.8 <= d < 1.2, shallow 1.2 <= d < 1.5, semi-deep 1.5 <= d < 1.8; no
\* tile lies at d >= 1.8.
C13_CircleBands ==
    (last.op = "buildIsland" /\ last.shape = "circle") =>
        \A island \in Islands : \A n \in 1..Len(island.tiles) :
            /\ island.tiles[n].texture \in DOMAIN RingOf
            /\ InRing(island.tiles[n], island.radius,
                      RingOf[island.tiles[n].texture][1], RingOf[island.tiles[n].texture][2])

\* a circle island with all nine classes and a tile right on the 0.2 boundary
C13_Witness ==
    /\ last.op = "buildIsland" /\ last.shape = "circle"
    /\ \E island \in Islands :
           /\ Textures(island) = DOMAIN RingOf
           /\ \E n \in 1..Len(island.tiles) :
                  100 * (Sq(island.tiles[n].offsetX) + Sq(island.tiles[n].offsetY))
                      = Sq(2 * island.radius)

\* C19 as claimed: every tile of an island, of whatever shape family, lies
\* within baseRadius * 1.8 tiles of the island center.
C19_EstimatedIsReach ==
    \A island \in Islands : \A n \in 1..Len(island.tiles) :
        100 * (Sq(island.tiles[n].offsetX) + Sq(island.tiles[n].offsetY))
            <= Sq(18 * island.radius)

----------------------------------------------------------------------------
(* Properties of cloud placement *)

\* the clouds of c accepted in the slots before slot i
CloudsBefore(c, i) ==
    SelectSeq(c.clouds, LAMBDA cloud :
                  \E j \in 0..(i - 1) : cloud.id = islandId(c.chunkX, c.chunkY, j))
\* the clouds of c accepted in slot i
CloudsOf(c, i) ==
    {n \in 1..Len(c.clouds) : c.clouds[n].id = islandId(c.chunkX, c.chunkY, i)}
\* the candidate that the do-while of slot i ends on
LastDrawn(c, i) ==
    drawCloud(c.chunkX, c.chunkY, seed, i, CloudsBefore(c, i),
              cloudCandidate(c.chunkX, c.chunkY, seed, i, 0))
SlotsOf(c) == 0..(cloudCount(c.chunkX, c.chunkY, seed) - 1)

\* C12: the centers of any two clouds of a chunk are at least
\* (radius1 + radius2 + 150 px) * CLOUD_SIZE apart.
C12_CloudsClear ==
    \A c \in Built : \A a \in 1..Len(c.clouds), b \in 1..Len(c.clouds) :
        a < b => Dist2(c.clouds[a].centerX, c.clouds[a].centerY,
                       c.clouds[b].centerX, c.clouds[b].centerY)
                     >= Sq((c.clouds[a].radius + c.clouds[b].radius + 150) * CLOUD_SIZE * Sub)

\* a chunk with three clouds, one of them placed on a re-drawn candidate
C12_Witness ==
    \E c \in Built :
        /\ Len(c.clouds) = 3
        /\ \E i \in SlotsOf(c) : CloudsOf(c, i) # {} /\ LastDrawn(c, i).attempts > 1

\* C17: the do-while of a cloud slot ends after at most 10 candidates; the slot
\* yields a cloud, at the last candidate drawn, iff that candidate does not
\* overlap a cloud accepted before, and yields nothing otherwise.
C17_SlotOutcome ==
    \A c \in Built : \A i \in SlotsOf(c) :
        LET d == LastDrawn(c, i)
        IN  /\ d.attempts <= 10
            /\ Cardinality(CloudsOf(c, i)) <= 1
            /\ (CloudsOf(c, i) # {}) <=>
                   ~checkOverlap(CloudsBefore(c, i), d.centerX, d.centerY, d.radius)
            /\ \A n \in CloudsOf(c, i) :
                   /\ c.clouds[n].centerX = d.centerX /\ c.clouds[n].centerY = d.centerY
                   /\ c.clouds[n].radius = d.radius

\* a slot dropped because its 10th candidate overlaps
C17_Witness ==
    \E c \in Built : \E i \in SlotsOf(c) :
        /\ CloudsOf(c, i) = {}
        /\ LastDrawn(c, i).attempts = 10

\* C18: every chunk has at least 1 and at most 3 cloud formations.
C18_CloudCount ==
    \A c \in Built : Len(c.clouds) >= 1 /\ Len(c.clouds) <= 3

\* a chunk of three slots that lost one of them
C18_Witness ==
    \E c \in Built : cloudCount(c.chunkX, c.chunkY, seed) = 3 /\ Len(c.clouds) = 2

\* C28: two generateCloudsForChunk calls for the same chunk and seed yield the
\* same cloud list, whatever islands they were passed.
C28_CloudsIgnoreIslands ==
    \A r1 \in DOMAIN heap, r2 \in DOMAIN heap :
        (heap[r1].chunkX = heap[r2].chunkX /\ heap[r1].chunkY = heap[r2].chunkY)
            => heap[r1].clouds = heap[r2].clouds

\* the clouds of a chunk placed with its two islands and then with none
C28_Witness ==
    /\ last.op = "generateCloudsForChunk" /\ last.calls = 2
    /\ Len(generateIslandsForChunk(last.chunkX, last.chunkY, seed)) >= 2
    /\ \A r \in DOMAIN heap : Len(heap[r].clouds) >= 2

\* the x-offset of an island from its chunk's left edge, in sub-pixels
XOffset(c, island) == island.centerX - c.chunkX * CHUNK_SIZE * TILE_SIZE * Sub
YOffset(c, island) == island.centerY - c.chunkY * CHUNK_SIZE * TILE_SIZE * Sub
\* the chunk extent, in sub-pixels
Extent == CHUNK_SIZE * TILE_SIZE * Sub
InBandOf(offset) == 2 * Extent <= 10 * offset /\ 10 * offset <= 8 * Extent
\* every island center of a built chunk is in the 0.2-0.8 band on each axis
CentersInBand ==
    \A c \in Built : \A n \in 1..Len(c.islands) :
        InBandOf(XOffset(c, c.islands[n])) /\ InBandOf(YOffset(c, c.islands[n]))
\* island 0 of every built chunk is left of 0.38 of the extent: its offsetX
\* draw is the occupancy draw, which is below 0.3
FirstIslandLeft ==
    \A c \in Built : \A n \in IslandsOf(c, 0) : 100 * XOffset(c, c.islands[n]) < 38 * Extent

\* C29: every island center lies in the 0.2-0.8 band of its chunk on each
\* axis, and the x-offset of island 0 is free of the occupancy draw: once a
\* chunk with an island 0 is built, some chunk generated for the same seed has
\* its island 0 at or right of 0.38 of the extent.
C29_BandAndFreeOffset ==
    /\ CentersInBand
    /\ (\E c \in Built : IslandsOf(c, 0) # {})
          => \E chunkX \in GenCoords, chunkY \in GenCoords :
                 \E c \in {generated(chunkX, chunkY, seed)} :
                     \E n \in IslandsOf(c, 0) : 100 * XOffset(c, c.islands[n]) >= 38 * Extent

----------------------------------------------------------------------------
(* Properties of the game machine *)

\* the player is inside the map of st: -bx <= x < bx and -by <= y < by
Inside(st) ==
    /\ 0 - st.mapBounds[1] <= st.playerPosition.x /\ st.playerPosition.x < st.mapBounds[1]
    /\ 0 - st.mapBounds[2] <= st.playerPosition.y /\ st.playerPosition.y < st.mapBounds[2]

\* a tick leaves the player inside the map of the render it read
TickInsideRendered ==
    [][Tick => (state'.playerPosition.x < rendered.mapBounds[1]
                /\ state'.playerPosition.x >= 0 - rendered.mapBounds[1])]_vars

\* C22: with the game ready and the map bounds set, the state after every
\* game-loop tick and after every reset has the player inside the map bounds
\* of that state.
C22_Wrapped ==
    [][(Tick \/ ResetTimeout)
          => (state'.isReady /\ state'.mapBounds # NoBounds => Inside(state'))]_vars

\* C23: the zoom is within [MIN_ZOOM, MAX_ZOOM] in every state, committed
\* or rendered.
C23_ZoomInRange ==
    /\ MIN_ZOOM <= state.zoom /\ state.zoom <= MAX_ZOOM
    /\ MIN_ZOOM <= rendered.zoom /\ rendered.zoom <= MAX_ZOOM

\* the zoom brought up to the maximum from the step below it, and a reset due
C23_Witness ==
    /\ state.zoom = MAX_ZOOM /\ rendered.zoom = MAX_ZOOM - ZOOM_STEP
    /\ state.isResetting /\ timers > 0

ReadyMeansLoaded ==
    state.isReady => /\ state.assetsLoaded
                     /\ state.mapBounds # NoBounds
                     /\ state.contentItemTextures
FailedNeverReadied == \A i \in 1..Len(runs) : runs[i].pc = "failed" => ~runs[i].ready
ReadiedByRun == state.isReady => \E i \in 1..Len(runs) : runs[i].ready

\* C24: a ready game has its assets loaded, its map bounds and its content
\* textures set; a run of initialize that failed has not marked the game
\* ready, and a ready game was marked so by a run; while the game is not ready
\* no step changes the player position.
C24_ReadyAfterLoading ==
    [][/\ ReadyMeansLoaded' /\ FailedNeverReadied' /\ ReadiedByRun'
       /\ ~state.isReady => state'.playerPosition = state.playerPosition]_vars

\* the first run failed with the player steering, the second made the game ready
C24_Witness ==
    /\ Len(runs) = 2 /\ runs[1].pc = "failed" /\ runs[2].ready
    /\ state.isReady /\ state.playerVelocity.vx # 0

\* the state a reset ends in
AtOrigin ==
    /\ ~state.isResetting
    /\ state.playerPosition = [x |-> 0, y |-> 0]
    /\ state.playerVelocity = [vx |-> 0, vy |-> 0]
    /\ state.playerRotation = 0 /\ state.targetRotation = 0
    /\ state.zoom = 100 /\ state.showDirectionalArrows

----------------------------------------------------------------------------
(* Properties of the terrain machine *)

\* every chunk of visibleChunks is the resident chunk of its key
VisibleResident ==
    \A n \in 1..Len(visibleChunks) :
        /\ visibleChunks[n].key \in DOMAIN cache
        /\ cache[visibleChunks[n].key] = visibleChunks[n]

C21_CleanupRuns == interval # <<>> ~> last.op = "cleanup"

====
